---- MODULE Spec2Model ----
(***************************************************************************)
(* Verification model of crawler.py: the daily.csv history store, its      *)
(* schema migration, the growth join, the top-risers ranking and the       *)
(* single-pass orchestration of main().                                    *)
(*                                                                         *)
(* Values.  A value is a record [k, v]: k is the kind, v an integer        *)
(* payload.  The same encoding serves the Python values held in memory     *)
(* and the text of a CSV cell on disk; CsvStr is what csv.writer does to   *)
(* a value and FromText what pandas.read_csv does to a cell.               *)
(*   memory: "blank" the str "", "NA" pd.NA, "NaN" float nan / NaT,         *)
(*           "int", "float" (v in hundredths), "floatstr" (the str of a    *)
(*           float kept in an object column), "date" the str YYYY-MM-DD,   *)
(*           "dt" the str YYYY-MM-DD 00:00:00, "ts" a Timestamp,           *)
(*           "kw" a keyword str, "ok"/"err" a status str, "junk" other str *)
(*   disk:   "blank" an empty field, "<NA>" and "nan" those literal        *)
(*           tokens, "int"/"float" numerals, "date"/"dt"/"kw"/"ok"/"err"/  *)
(*           "junk" the text itself.                                       *)
(* Dates are day numbers.  Growth percentages are kept in hundredths of a  *)
(* percent (20.0 is 2000), which is exact for values rounded to 2 places.  *)
(***************************************************************************)
EXTENDS Integers, Sequences, FiniteSets, TLC

\* pc             position in main() (or in one of the function harnesses)
\* store          data/daily.csv
\* snapshot       data/pchome_keywords_<TODAY>.csv
\* report         data/top_risers_<TODAY>.csv
\* today, run     TODAY of this invocation, and the invocation's number
\* today_rows     the batch fetched so far
\* enriched       df_today_with_growth as records
\* pre            history: the store before the last step that may write it
\* migrated       history: the store as the last completed migration left it
\* hist_at_enrich history: the store compute_growth read
\* trail          history: the steps of main() completed in this invocation
VARIABLES pc, store, pre, today, run, today_rows, snapshot, enriched, report,
          hist_at_enrich, trail, migrated

vars == <<pc, store, pre, today, run, today_rows, snapshot, enriched, report,
          hist_at_enrich, trail, migrated>>

----------------------------------------------------------------------------
(* Program constants *)

SCHEMA_V1 == <<"date", "keyword", "count", "status">>

SCHEMA_V2 == <<"date", "keyword", "count", "status", "day_growth_pct", "week_growth_pct">>

GROWTH_COLS == <<"day_growth_pct", "week_growth_pct">>

REPORT_COLS == <<"date", "keyword", "count", "day_growth_pct", "week_growth_pct", "status">>

TOP_N == 10

MIN_COUNT == 50

\* keywords.txt / DEFAULT_KEYWORDS: an ordered, de-duplicated list (ids)
KEYWORDS == <<1, 2>>

----------------------------------------------------------------------------
(* Values *)

Blank == [k |-> "blank", v |-> 0]
NA == [k |-> "NA", v |-> 0]
NaN == [k |-> "NaN", v |-> 0]
TxtNA == [k |-> "<NA>", v |-> 0]
TxtNan == [k |-> "nan", v |-> 0]
StOk == [k |-> "ok", v |-> 0]
StErr == [k |-> "err", v |-> 0]
IntV(n) == [k |-> "int", v |-> n]
FloatV(h) == [k |-> "float", v |-> h]
FloatStr(h) == [k |-> "floatstr", v |-> h]
DateStr(d) == [k |-> "date", v |-> d]
DtStr(d) == [k |-> "dt", v |-> d]
Ts(d) == [k |-> "ts", v |-> d]
Kw(i) == [k |-> "kw", v |-> i]
Junk(i) == [k |-> "junk", v |-> i]

Range(s) == {s[i] : i \in 1..Len(s)}

Max(a, b) == IF a >= b THEN a ELSE b

Min(a, b) == IF a <= b THEN a ELSE b

\* position of name c in the sequence cols (0 when absent)
IndexOf(cols, c) == IF c \in Range(cols) THEN CHOOSE i \in 1..Len(cols) : cols[i] = c ELSE 0

\* str(x) as csv.writer applies it: None and "" give an empty field, every
\* other object its str()/repr(): pd.NA is "<NA>", float nan is "nan",
\* a Timestamp at midnight is "YYYY-MM-DD 00:00:00"
CsvStr(x) ==
  CASE x.k = "NA" -> TxtNA
    [] x.k = "NaN" -> TxtNan
    [] x.k = "ts" -> DtStr(x.v)
    [] x.k = "floatstr" -> FloatV(x.v)
    [] OTHER -> x

\* pandas' default na_values contain "", "<NA>" and "nan"
IsNaText(c) == c.k \in {"blank", "<NA>", "nan"}

\* pd.isna
IsNA(x) == x.k \in {"NA", "NaN"}

----------------------------------------------------------------------------
(* CSV files and DataFrames *)

NoFile == [exists |-> FALSE, header |-> <<>>, rows |-> <<>>]

File(header, rows) == [exists |-> TRUE, header |-> header, rows |-> rows]

EmptyFrame == [cols |-> <<>>, rows |-> <<>>]

\* DataFrame.empty
IsEmpty(df) == df.cols = <<>> \/ df.rows = <<>>

\* dtype inference of one parsed column
ColType(cells) ==
  LET vals == {c \in Range(cells) : ~IsNaText(c)} IN
  IF \E c \in vals : c.k \notin {"int", "float"} THEN "object"
  ELSE IF (\E c \in vals : c.k = "float") \/ (\E c \in Range(cells) : IsNaText(c)) THEN "float"
  ELSE "int"

FromText(c, type) ==
  IF IsNaText(c) THEN NaN
  ELSE IF type = "float" THEN (IF c.k = "int" THEN FloatV(c.v * 100) ELSE c)
  ELSE IF type = "object" THEN (IF c.k = "float" THEN FloatStr(c.v) ELSE c)
  ELSE c

Pad(r, w) == r \o [i \in 1..(w - Len(r)) |-> Blank]

\* pd.read_csv(path, on_bad_lines="skip") of a file that has a header line.
\* The C tokenizer takes the width from the header and the first data line
\* (a first data line longer than the header makes the leading fields an
\* implicit index), skips every later line with more fields than that and
\* pads shorter lines with missing values.
read_csv(st) ==
  LET H == Len(st.header)
      W == IF st.rows = <<>> THEN H ELSE Max(H, Len(st.rows[1]))
      lead == W - H
      kept == SelectSeq(st.rows, LAMBDA r : Len(r) <= W)
      text == [i \in 1..Len(kept) |-> SubSeq(Pad(kept[i], W), lead + 1, W)]
      type == [j \in 1..H |-> ColType([i \in 1..Len(text) |-> text[i][j]])]
  IN [cols |-> st.header,
      rows |-> [i \in 1..Len(text) |-> [j \in 1..H |-> FromText(text[i][j], type[j])]]]

\* pd.read_csv raises EmptyDataError on a file without any line, with the
\* default engine and again with engine="python"
ReadRaises(st) == st.exists /\ st.header = <<>>

safe_read_csv(st) == IF ~st.exists THEN EmptyFrame ELSE read_csv(st)

\* df[c] = value for a column c that df lacks: appended as the last column
AddCol(df, c, x) ==
  [cols |-> Append(df.cols, c), rows |-> [i \in 1..Len(df.rows) |-> Append(df.rows[i], x)]]

\* df[names]
SelectCols(df, names) ==
  [cols |-> names,
   rows |-> [i \in 1..Len(df.rows) |-> [j \in 1..Len(names) |-> df.rows[i][IndexOf(df.cols, names[j])]]]]

\* df.to_dict(orient="records")
to_dict(df) ==
  [i \in 1..Len(df.rows) |-> [c \in Range(df.cols) |-> df.rows[i][IndexOf(df.cols, c)]]]

\* one csv.DictWriter row: restval "" for a missing key
DictRow(d, fieldnames) ==
  [j \in 1..Len(fieldnames) |->
     IF fieldnames[j] \in DOMAIN d THEN CsvStr(d[fieldnames[j]]) ELSE Blank]

write_csv(rows, fieldnames) ==
  File(fieldnames, [i \in 1..Len(rows) |-> DictRow(rows[i], fieldnames)])

\* append_csv opening the file with mode "w": the batch replaces the store
append_csv_overwrites(st, rows, fieldnames) ==
  File(IF st.exists THEN st.header ELSE fieldnames,
       [i \in 1..Len(rows) |-> DictRow(rows[i], fieldnames)])

append_csv(st, rows, fieldnames) ==
  LET new == [i \in 1..Len(rows) |-> DictRow(rows[i], fieldnames)] IN
  IF ~st.exists THEN File(fieldnames, new)
  ELSE [st EXCEPT !.rows = st.rows \o new]

----------------------------------------------------------------------------
(* Schema migration *)

RECURSIVE AddMissing(_, _)
AddMissing(df, names) ==
  IF names = <<>> THEN df
  ELSE AddMissing(IF Head(names) \in Range(df.cols) THEN df ELSE AddCol(df, Head(names), NA),
                  Tail(names))

\* the migration without its "if changed" test: a store that is neither
\* the old layout nor empty is rewritten on every run
upgrade_always_rewrites(st) ==
  IF ~st.exists THEN st
  ELSE LET df == safe_read_csv(st) IN
    IF IsEmpty(df) THEN st
    ELSE IF df.cols = SCHEMA_V1
      THEN write_csv(to_dict(SelectCols(AddMissing(df, GROWTH_COLS), SCHEMA_V2)), SCHEMA_V2)
    ELSE LET df2 == AddMissing(df, GROWTH_COLS)
             ordered == SelectSeq(SCHEMA_V2, LAMBDA c : c \in Range(df2.cols))
                        \o SelectSeq(df2.cols, LAMBDA c : c \notin Range(SCHEMA_V2))
         IN write_csv(to_dict(SelectCols(df2, ordered)), ordered)

upgrade_daily_schema_if_needed(st) ==
  IF ~st.exists THEN st
  ELSE LET df == safe_read_csv(st) IN
    IF IsEmpty(df) THEN st
    ELSE IF df.cols = SCHEMA_V1
      THEN write_csv(to_dict(SelectCols(AddMissing(df, GROWTH_COLS), SCHEMA_V2)), SCHEMA_V2)
    ELSE LET df2 == AddMissing(df, GROWTH_COLS)
             changed == df2.cols # df.cols
             ordered == SelectSeq(SCHEMA_V2, LAMBDA c : c \in Range(df2.cols))
                        \o SelectSeq(df2.cols, LAMBDA c : c \notin Range(SCHEMA_V2))
         IN IF changed THEN write_csv(to_dict(SelectCols(df2, ordered)), ordered) ELSE st

----------------------------------------------------------------------------
(* Growth join *)

None == [k |-> "None", v |-> 0]

\* pd.to_datetime(x, errors="coerce"): date-like text and Timestamps give the
\* Timestamp of that day, missing values and other text give NaT, a number
\* is read as nanoseconds since the epoch (a non-null instant that is no
\* model day).  Each value is parsed by itself: a column mixing YYYY-MM-DD
\* with YYYY-MM-DD 00:00:00 is read as pandas 1.x reads it.
to_datetime(x) ==
  CASE x.k \in {"date", "dt", "ts"} -> Ts(x.v)
    [] x.k \in {"int", "float"} -> [k |-> "epoch", v |-> x.v]
    [] OTHER -> NaN

\* whether int(x) succeeds: an int, a float, or the str of an integer
CanInt(x) == x.k \in {"int", "float"}

\* int(x): floats truncate toward zero
PyInt(x) ==
  IF x.k = "int" THEN x.v
  ELSE IF x.v >= 0 THEN x.v \div 100 ELSE -((-x.v) \div 100)

\* round(num / den * 100.0, 2) in hundredths, den > 0, ties to even
Round2(num, den) ==
  LET n == 10000 * num
      q == n \div den
      r == n % den
  IN IF 2 * r < den THEN q
     ELSE IF 2 * r > den THEN q + 1
     ELSE IF q % 2 = 0 THEN q ELSE q + 1

\* the history frame compute_growth joins against: columns date, keyword,
\* count; dates coerced; rows with a missing value in any of them dropped
load_hist(st) ==
  LET raw == safe_read_csv(st) IN
  IF IsEmpty(raw) THEN <<>>
  ELSE LET full == AddMissing(raw, <<"date", "keyword", "count">>)
           sel == SelectCols(full, <<"date", "keyword", "count">>)
           conv == [i \in 1..Len(sel.rows) |->
                      [date |-> to_datetime(sel.rows[i][1]),
                       keyword |-> sel.rows[i][2],
                       count |-> sel.rows[i][3]]]
       IN SelectSeq(conv, LAMBDA h : ~IsNA(h.date) /\ ~IsNA(h.keyword) /\ ~IsNA(h.count))

\* hist.loc[(hist["keyword"]==kw) & (hist["date"]==d), "count"]
base_series(hist, kw, d) ==
  LET hit == SelectSeq(hist, LAMBDA h : h.keyword = kw /\ h.date = Ts(d))
  IN [i \in 1..Len(hit) |-> hit[i].count]

\* pct with a zero base answered by 0.0 instead of None
pct_zero_base(curr, series) ==
  IF Len(series) = 0 THEN None
  ELSE IF ~CanInt(series[1]) THEN None
  ELSE LET base == PyInt(series[1]) IN
       IF base < 0 THEN None
       ELSE IF base = 0 THEN FloatV(0)
       ELSE FloatV(Round2(curr - base, base))

\* pct reading the last matching row (iloc[-1]) instead of the first
pct_last(curr, series) ==
  IF Len(series) = 0 THEN None
  ELSE IF ~CanInt(series[Len(series)]) THEN None
  ELSE LET base == PyInt(series[Len(series)]) IN
       IF base <= 0 THEN None ELSE FloatV(Round2(curr - base, base))

pct(curr, series) ==
  IF Len(series) = 0 THEN None
  ELSE IF ~CanInt(series[1]) THEN None
  ELSE LET base == PyInt(series[1]) IN
       IF base <= 0 THEN None ELSE FloatV(Round2(curr - base, base))

\* round(g, 2) if g is not None else ""
GrowthCell(g) == IF g = None THEN Blank ELSE g

compute_growth(df_today, st) ==
  LET hist == load_hist(st) IN
  [i \in 1..Len(df_today) |->
     LET row == df_today[i]
         d0 == to_datetime(row.date)
         count == PyInt(row.count)
     IN [date |-> d0,
         keyword |-> row.keyword,
         count |-> row.count,
         status |-> row.status,
         day_growth_pct |-> GrowthCell(pct(count, base_series(hist, row.keyword, d0.v - 1))),
         week_growth_pct |-> GrowthCell(pct(count, base_series(hist, row.keyword, d0.v - 7)))]]

----------------------------------------------------------------------------
(* Ranking *)

\* pd.to_numeric(x, errors="coerce") on a growth value
to_numeric(x) == IF x.k \in {"int", "float"} THEN x ELSE NaN

\* insert row r after every row of the descending sequence s whose key is
\* not smaller: rows with equal keys keep their batch order
RECURSIVE InsertDesc(_, _, _)
InsertDesc(s, r, col) ==
  IF s = <<>> THEN <<r>>
  ELSE IF Head(s)[col].v >= r[col].v THEN <<Head(s)>> \o InsertDesc(Tail(s), r, col)
  ELSE <<r>> \o s

\* base.sort_values(col, ascending=False); for frames of at most 16 rows
\* numpy's quicksort is an insertion sort, so ties keep their order
RECURSIVE sort_values(_, _)
sort_values(rows, col) ==
  IF rows = <<>> THEN <<>>
  ELSE InsertDesc(sort_values(SubSeq(rows, 1, Len(rows) - 1), col), rows[Len(rows)], col)

head(rows, n) == SubSeq(rows, 1, Min(n, Len(rows)))

Numeric(rows) ==
  [i \in 1..Len(rows) |->
     [rows[i] EXCEPT !.day_growth_pct = to_numeric(@), !.week_growth_pct = to_numeric(@)]]

\* the tier filter without the count threshold
Tier_no_min(df, col) == SelectSeq(df, LAMBDA r : ~IsNA(r[col]))

Tier(df, col) == SelectSeq(df, LAMBDA r : ~IsNA(r[col]) /\ r.count.v >= MIN_COUNT)

\* the rows write_top_risers selects, in report order
top_rows(rows) ==
  LET df == Numeric(rows)
      t1 == Tier(df, "week_growth_pct")
      t2 == Tier(df, "day_growth_pct")
  IN IF t1 # <<>> THEN head(sort_values(t1, "week_growth_pct"), TOP_N)
     ELSE IF t2 # <<>> THEN head(sort_values(t2, "day_growth_pct"), TOP_N)
     ELSE head(sort_values(df, "count"), TOP_N)

write_top_risers(rows) == write_csv(top_rows(rows), REPORT_COLS)

----------------------------------------------------------------------------
(* Bounds and inputs of the pipeline specification *)

\* number of invocations of main() against the same store
MaxRuns == 2

\* TODAY of the first invocation
Today0 == 10

\* totalRows values a successful fetch returns
OkCounts == {40, 120}

\* days between two invocations: a same-day re-run or the next day
DayAdvances == {0, 1}

\* a stored row under a given header: every recognised column holds a
\* well-formed value, an unrecognised column a note
CellFor(c, d, kw, n, old) ==
  CASE c = "date" -> IF old THEN DateStr(d) ELSE DtStr(d)
    [] c = "keyword" -> Kw(kw)
    [] c = "count" -> IntV(n)
    [] c = "status" -> StOk
    [] c \in Range(GROWTH_COLS) -> Blank
    [] OTHER -> Junk(1)

RowFor(header, d, kw, n) ==
  [j \in 1..Len(header) |->
     CellFor(header[j], d, kw, n, \A g \in Range(GROWTH_COLS) : g \notin Range(header))]

\* earlier observations: a week ago, yesterday, and an earlier run of today
PastRows(header) ==
  <<RowFor(header, Today0 - 7, 1, 100), RowFor(header, Today0 - 1, 1, 160),
    RowFor(header, Today0 - 1, 2, 100), RowFor(header, Today0, 1, 100)>>

\* the layouts daily.csv is found in when main() starts
InitHeaders ==
  { SCHEMA_V1, SCHEMA_V2,
    SCHEMA_V2 \o <<"note">>,
    <<"note">> \o SCHEMA_V2,
    SCHEMA_V1 \o <<"day_growth_pct">>,
    <<"date", "keyword", "count", "day_growth_pct", "week_growth_pct">> }

InitStores ==
  {NoFile} \cup {File(h, PastRows(h)) : h \in InitHeaders}
           \cup {File(h, <<>>) : h \in {SCHEMA_V1, SCHEMA_V2}}

----------------------------------------------------------------------------
(* main() *)

STEPS == <<"migrate", "fetch", "snapshot", "enrich", "append", "rank">>

Init ==
  /\ pc = "migrate"
  /\ store \in InitStores
  /\ pre = store
  /\ today = Today0
  /\ run = 1
  /\ today_rows = <<>>
  /\ snapshot = NoFile
  /\ enriched = <<>>
  /\ report = NoFile
  /\ hist_at_enrich = NoFile
  /\ trail = <<>>
  /\ migrated = NoFile

\* upgrade_daily_schema_if_needed(); an unreadable store ends the run
Migrate ==
  /\ pc = "migrate"
  /\ pre' = store
  /\ IF ReadRaises(store)
       THEN pc' = "fatal" /\ UNCHANGED <<store, trail, migrated>>
       ELSE /\ store' = upgrade_daily_schema_if_needed(store)
            /\ migrated' = store'
            /\ pc' = "fetch"
            /\ trail' = Append(trail, "migrate")
  /\ UNCHANGED <<today, run, today_rows, snapshot, enriched, report, hist_at_enrich>>

\* fetch_count letting the exception of a failed fetch escape the loop is
\* not expressible as a value; this variant reports the failure but keeps a
\* stale count instead of 0
fetch_count_keeps_count(ok, n) == IF ok THEN <<IntV(n), StOk>> ELSE <<IntV(n), StErr>>

\* fetch_count: (int(totalRows), "ok"), or (0, "error: ...") on any exception
fetch_count(ok, n) == IF ok THEN <<IntV(n), StOk>> ELSE <<IntV(0), StErr>>

\* one iteration of the keyword loop
Fetch ==
  /\ pc = "fetch"
  /\ \E ok \in BOOLEAN, n \in OkCounts :
       LET kw == KEYWORDS[Len(today_rows) + 1]
           res == fetch_count(ok, n)
       IN today_rows' = Append(today_rows,
            [date |-> DateStr(today), keyword |-> Kw(kw), count |-> res[1], status |-> res[2]])
  /\ IF Len(today_rows) + 1 = Len(KEYWORDS)
       THEN pc' = "snapshot" /\ trail' = Append(trail, "fetch")
       ELSE UNCHANGED <<pc, trail>>
  /\ UNCHANGED <<store, pre, today, run, snapshot, enriched, report, hist_at_enrich, migrated>>

\* the snapshot written inside the keyword loop, which then ends early
SnapshotInLoop ==
  /\ pc = "fetch"
  /\ today_rows # <<>>
  /\ snapshot' = write_csv(today_rows, SCHEMA_V1)
  /\ pc' = "enrich"
  /\ trail' = trail \o <<"fetch", "snapshot">>
  /\ UNCHANGED <<store, pre, today, run, today_rows, enriched, report, hist_at_enrich, migrated>>

Snapshot ==
  /\ pc = "snapshot"
  /\ snapshot' = write_csv(today_rows, SCHEMA_V1)
  /\ pc' = "enrich"
  /\ trail' = Append(trail, "snapshot")
  /\ UNCHANGED <<store, pre, today, run, today_rows, enriched, report, hist_at_enrich, migrated>>

Enrich ==
  /\ pc = "enrich"
  /\ enriched' = compute_growth(today_rows, store)
  /\ hist_at_enrich' = store
  /\ pc' = "append"
  /\ trail' = Append(trail, "enrich")
  /\ UNCHANGED <<store, pre, today, run, today_rows, snapshot, report, migrated>>

AppendStep ==
  /\ pc = "append"
  /\ pre' = store
  /\ store' = append_csv(store, enriched, SCHEMA_V2)
  /\ pc' = "rank"
  /\ trail' = Append(trail, "append")
  /\ UNCHANGED <<today, run, today_rows, snapshot, enriched, report, hist_at_enrich, migrated>>

\* plot_charts() only reads the store; then write_top_risers
Rank ==
  /\ pc = "rank"
  /\ report' = write_top_risers(enriched)
  /\ pc' = "done"
  /\ trail' = Append(trail, "rank")
  /\ UNCHANGED <<store, pre, today, run, today_rows, snapshot, enriched, hist_at_enrich, migrated>>

\* the next invocation of the process: module state is rebuilt, the files
\* of a new day do not exist yet
NextRun ==
  /\ pc = "done"
  /\ run < MaxRuns
  /\ \E adv \in DayAdvances :
       /\ today' = today + adv
       /\ snapshot' = IF adv = 0 THEN snapshot ELSE NoFile
       /\ report' = IF adv = 0 THEN report ELSE NoFile
  /\ run' = run + 1
  /\ pc' = "migrate"
  /\ pre' = store
  /\ today_rows' = <<>>
  /\ enriched' = <<>>
  /\ hist_at_enrich' = NoFile
  /\ trail' = <<>>
  /\ UNCHANGED <<store, migrated>>

Next == Migrate \/ Fetch \/ Snapshot \/ Enrich \/ AppendStep \/ Rank \/ NextRun

Spec == Init /\ [][Next]_vars

----------------------------------------------------------------------------
(* upgrade_daily_schema_if_needed on its own, run twice on one store *)

\* data rows of a store the migration is tried on
MaxStoreRows == 2

\* every sequence over S of length at most n
SeqsUpTo(S, n) == UNION {[1..m -> S] : m \in 0..n}

BlankCount(header, r) ==
  [j \in 1..Len(r) |-> IF header[j] = "count" THEN Blank ELSE r[j]]

\* lines found under a header: a well-formed row, a row whose count is
\* missing, a row in the current layout whatever the header says (as
\* append_csv writes it), and a line cut short
MigRows(header) ==
  { RowFor(header, Today0 - 1, 1, 100),
    BlankCount(header, RowFor(header, Today0 - 1, 2, 160)),
    <<DtStr(Today0), Kw(1), IntV(120), StOk, FloatV(2000), Blank>>,
    SubSeq(RowFor(header, Today0 - 1, 2, 40), 1, 2) }

MigHeaders ==
  InitHeaders \cup { SCHEMA_V1 \o <<"note">>, <<"keyword", "count">>,
                     <<"date", "keyword", "count", "status", "week_growth_pct">> }

\* missing, a file of zero bytes, and every header with up to MaxStoreRows lines
MigStores ==
  {NoFile, File(<<>>, <<>>)}
    \cup UNION {{File(h, rs) : rs \in SeqsUpTo(MigRows(h), MaxStoreRows)} : h \in MigHeaders}

InitMigrate ==
  /\ pc = "m_start"
  /\ store \in MigStores
  /\ pre = store
  /\ migrated = NoFile
  /\ today = Today0
  /\ run = 1
  /\ today_rows = <<>>
  /\ snapshot = NoFile
  /\ enriched = <<>>
  /\ report = NoFile
  /\ hist_at_enrich = NoFile
  /\ trail = <<>>

M_First ==
  /\ pc = "m_start"
  /\ pre' = store
  /\ IF ReadRaises(store)
       THEN pc' = "fatal" /\ UNCHANGED <<store, migrated>>
       ELSE /\ store' = upgrade_daily_schema_if_needed(store)
            /\ migrated' = store'
            /\ pc' = "m_once"
  /\ UNCHANGED <<today, run, today_rows, snapshot, enriched, report, hist_at_enrich, trail>>

M_Second ==
  /\ pc = "m_once"
  /\ store' = upgrade_daily_schema_if_needed(store)
  /\ pc' = "m_twice"
  /\ UNCHANGED <<pre, migrated, today, run, today_rows, snapshot, enriched, report,
                 hist_at_enrich, trail>>

NextMigrate == M_First \/ M_Second

SpecMigrate == InitMigrate /\ [][NextMigrate]_vars

----------------------------------------------------------------------------
(* compute_growth on its own, over drawn histories *)

\* rows of the drawn history
MaxHist == 3

\* today's count of the first keyword
GrowthCounts == {120, 161}

HistRow(d, kw, c) == <<DtStr(d), Kw(kw), c, StOk, Blank, Blank>>

\* history rows: baselines of both offsets with positive, zero, negative,
\* missing and non-numeric counts, another keyword, other dates
HistKinds ==
  { HistRow(Today0 - 1, 1, IntV(100)), HistRow(Today0 - 1, 1, IntV(160)),
    HistRow(Today0 - 1, 1, IntV(0)), HistRow(Today0 - 1, 1, IntV(-10)),
    HistRow(Today0 - 1, 1, Blank), HistRow(Today0 - 1, 1, Junk(2)),
    HistRow(Today0 - 7, 1, IntV(100)), HistRow(Today0 - 7, 1, IntV(70)),
    HistRow(Today0 - 7, 1, IntV(0)),
    HistRow(Today0 - 1, 2, IntV(100)), HistRow(Today0 - 2, 1, IntV(100)),
    HistRow(Today0, 1, IntV(100)) }

InitGrowth ==
  /\ pc = "g_build"
  /\ store = File(SCHEMA_V2, <<>>)
  /\ \E n \in GrowthCounts :
       today_rows = <<[date |-> DateStr(Today0), keyword |-> Kw(1), count |-> IntV(n), status |-> StOk],
                      [date |-> DateStr(Today0), keyword |-> Kw(2), count |-> IntV(0), status |-> StErr]>>
  /\ pre = store
  /\ migrated = NoFile
  /\ today = Today0
  /\ run = 1
  /\ snapshot = NoFile
  /\ enriched = <<>>
  /\ report = NoFile
  /\ hist_at_enrich = NoFile
  /\ trail = <<>>

G_AddHist ==
  /\ pc = "g_build"
  /\ Len(store.rows) < MaxHist
  /\ \E r \in HistKinds : store' = [store EXCEPT !.rows = Append(@, r)]
  /\ UNCHANGED <<pc, pre, today, run, today_rows, snapshot, enriched, report,
                 hist_at_enrich, trail, migrated>>

G_Compute ==
  /\ pc = "g_build"
  /\ enriched' = compute_growth(today_rows, store)
  /\ hist_at_enrich' = store
  /\ pc' = "g_done"
  /\ UNCHANGED <<store, pre, today, run, today_rows, snapshot, report, trail, migrated>>

NextGrowth == G_AddHist \/ G_Compute

SpecGrowth == InitGrowth /\ [][NextGrowth]_vars

----------------------------------------------------------------------------
(* write_top_risers on its own, over drawn batches *)

\* rows of a drawn batch: more than TOP_N, so that the cut happens
MaxBatch == 12

\* leading rows drawn freely; the rows after them repeat one filler kind
VariedRows == 2

BatchRow(p, n, day, week) ==
  [date |-> Ts(Today0), keyword |-> Kw(p), count |-> IntV(n), status |-> StOk,
   day_growth_pct |-> day, week_growth_pct |-> week]

FreeRows(p) ==
  { BatchRow(p, n, day, week) :
      n \in {40, 60}, day \in {Blank, FloatV(700)}, week \in {Blank, FloatV(500), FloatV(-300)} }

\* fillers: a week riser, a day riser, a row without growth; values repeat
\* every fourth row so that ties occur
Filler(p, kind) ==
  CASE kind = "week" -> BatchRow(p, 60 + p, Blank, FloatV(100 * (p % 4)))
    [] kind = "day" -> BatchRow(p, 60 + p, FloatV(100 * (p % 4)), Blank)
    [] OTHER -> BatchRow(p, 45 + (p % 4) * 5, Blank, Blank)

FillerKind(r) ==
  IF r.week_growth_pct # Blank THEN "week" ELSE IF r.day_growth_pct # Blank THEN "day" ELSE "none"

NextRows(batch) ==
  LET p == Len(batch) + 1 IN
  IF p <= VariedRows THEN FreeRows(p)
  ELSE IF p = VariedRows + 1 THEN {Filler(p, kind) : kind \in {"week", "day", "none"}}
  ELSE {Filler(p, FillerKind(batch[p - 1]))}

InitRank ==
  /\ pc = "r_build"
  /\ enriched = <<>>
  /\ store = NoFile
  /\ pre = NoFile
  /\ migrated = NoFile
  /\ today = Today0
  /\ run = 1
  /\ today_rows = <<>>
  /\ snapshot = NoFile
  /\ report = NoFile
  /\ hist_at_enrich = NoFile
  /\ trail = <<>>

R_AddRow ==
  /\ pc = "r_build"
  /\ Len(enriched) < MaxBatch
  /\ \E r \in NextRows(enriched) : enriched' = Append(enriched, r)
  /\ UNCHANGED <<pc, store, pre, today, run, today_rows, snapshot, report,
                 hist_at_enrich, trail, migrated>>

R_Rank ==
  /\ pc = "r_build"
  /\ enriched # <<>>
  /\ report' = write_top_risers(enriched)
  /\ pc' = "r_done"
  /\ UNCHANGED <<store, pre, today, run, today_rows, snapshot, enriched,
                 hist_at_enrich, trail, migrated>>

NextRank == R_AddRow \/ R_Rank

SpecRank == InitRank /\ [][NextRank]_vars

----------------------------------------------------------------------------
(* Claims about compute_growth (SpecGrowth) *)

Abs(x) == IF x < 0 THEN -x ELSE x

SetMin(S) == CHOOSE x \in S : \A y \in S : x <= y

\* the stored rows that are observations of keyword kw on day d: the date
\* and keyword cells say so and the count cell is not a missing value
Observed(st, kw, d) ==
  {j \in 1..Len(st.rows) :
     /\ st.rows[j][1] \in {DateStr(d), DtStr(d)}
     /\ st.rows[j][2] = kw
     /\ ~IsNaText(st.rows[j][3])}

\* g is what the claim asks of a growth field: blank without a baseline or
\* with a baseline count that is no positive integer, else the percentage
\* within half a hundredth of (c - base) / base * 100
GrowthIs(g, st, kw, d, c) ==
  LET cand == Observed(st, kw, d) IN
  IF cand = {} THEN g = Blank
  ELSE LET b == st.rows[SetMin(cand)][3] IN
       IF b.k # "int" \/ b.v <= 0 THEN g = Blank
       ELSE g.k = "float" /\ 2 * Abs(g.v * b.v - 10000 * (c - b.v)) <= b.v

\* C1: for every batch row (date D, keyword K, count c) and every history,
\* each of day_growth_pct (offset 1) and week_growth_pct (offset 7) is blank
\* when the history holds no observation of K on D - offset or that
\* baseline's count is <= 0, and otherwise is (c - base) / base * 100 rounded
\* to 2 decimals; each field depends on its own baseline only, and the
\* computation always completes.
C1_GrowthValues ==
  pc = "g_done" =>
    /\ Len(enriched) = Len(today_rows)
    /\ \A i \in 1..Len(today_rows) :
         /\ GrowthIs(enriched[i].day_growth_pct, hist_at_enrich,
                     today_rows[i].keyword, Today0 - 1, today_rows[i].count.v)
         /\ GrowthIs(enriched[i].week_growth_pct, hist_at_enrich,
                     today_rows[i].keyword, Today0 - 7, today_rows[i].count.v)

\* base 100, current 120 gives 20.0 while the week baseline is missing
C1_Witness ==
  /\ pc = "g_done"
  /\ today_rows[1].count = IntV(120)
  /\ Observed(hist_at_enrich, Kw(1), Today0 - 7) = {}
  /\ enriched[1].day_growth_pct = FloatV(2000)
  /\ enriched[1].week_growth_pct = Blank

\* the store without the rows that repeat the (date, keyword) of an earlier
\* observation
FirstOnly(st) ==
  LET keep == {j \in 1..Len(st.rows) :
                 ~\E i \in 1..(j - 1) :
                    /\ st.rows[i][1] = st.rows[j][1]
                    /\ st.rows[i][2] = st.rows[j][2]
                    /\ ~IsNaText(st.rows[i][3])}
      idx == [j \in 1..Len(st.rows) |-> j]
      kept == SelectSeq(idx, LAMBDA j : j \in keep)
  IN [st EXCEPT !.rows = [n \in 1..Len(kept) |-> st.rows[kept[n]]]]

\* C7: when several stored rows share a (keyword, baseline date), the growth
\* is measured against the first of them in stored order: the result is the
\* one computed from the history with every later duplicate removed.
C7_FirstDuplicateWins ==
  pc = "g_done" => enriched = compute_growth(today_rows, FirstOnly(hist_at_enrich))

\* two observations of yesterday, 100 then 160: 120 today is +20.0, not -25.0
C7_Witness ==
  /\ pc = "g_done"
  /\ today_rows[1].count = IntV(120)
  /\ Len(hist_at_enrich.rows) >= 2
  /\ hist_at_enrich.rows[1] = HistRow(Today0 - 1, 1, IntV(100))
  /\ hist_at_enrich.rows[2] = HistRow(Today0 - 1, 1, IntV(160))
  /\ enriched[1].day_growth_pct = FloatV(2000)

----------------------------------------------------------------------------
(* Claims about write_top_risers (SpecRank) *)

Present(x) == x.k = "float"

\* batch positions of the candidates of a growth tier
TierSet(col) ==
  {p \in 1..Len(enriched) : Present(enriched[p][col]) /\ enriched[p].count.v >= MIN_COUNT}

ActiveCol ==
  IF TierSet("week_growth_pct") # {} THEN "week_growth_pct"
  ELSE IF TierSet("day_growth_pct") # {} THEN "day_growth_pct"
  ELSE "count"

ActiveSet == IF ActiveCol = "count" THEN 1..Len(enriched) ELSE TierSet(ActiveCol)

\* the batch rows of SpecRank carry their position as keyword
RepPos(i) == report.rows[i][2].v

RepKey(i) == enriched[RepPos(i)][ActiveCol].v

\* C2: the report is the first TOP_N rows of the first non-empty tier (week
\* growth present and count >= MIN_COUNT, else day growth present and
\* count >= MIN_COUNT, else the whole batch by count), in descending order
\* of the tier's column: at most TOP_N rows, each a distinct row of the
\* batch and of the tier, none left out that ranks above a reported one.
C2_TieredTopN ==
  pc = "r_done" =>
    LET n == Len(report.rows) IN
    /\ n = Min(TOP_N, Cardinality(ActiveSet))
    /\ n <= TOP_N
    /\ \A i \in 1..n :
         /\ RepPos(i) \in ActiveSet
         /\ report.rows[i][3] = enriched[RepPos(i)].count
         /\ ActiveCol # "count" => report.rows[i][3].v >= MIN_COUNT
    /\ \A i, j \in 1..n : i < j => RepPos(i) # RepPos(j) /\ RepKey(i) >= RepKey(j)
    /\ \A p \in ActiveSet :
         (\A i \in 1..n : RepPos(i) # p) => enriched[p][ActiveCol].v <= RepKey(n)

\* a week tier of more than TOP_N candidates is cut to TOP_N rows
C2_Witness ==
  /\ pc = "r_done"
  /\ ActiveCol = "week_growth_pct"
  /\ Cardinality(ActiveSet) > TOP_N
  /\ Cardinality(ActiveSet) < Len(enriched)
  /\ Len(report.rows) = TOP_N

----------------------------------------------------------------------------
(* Claims about upgrade_daily_schema_if_needed (SpecMigrate) *)

\* a store in exactly the old layout whose every line is a well-formed
\* four-field observation
OldLayout(st) ==
  /\ st.exists
  /\ st.header = SCHEMA_V1
  /\ \A i \in 1..Len(st.rows) : Len(st.rows[i]) = 4 /\ st.rows[i][3].k = "int"

\* C3: whenever the store has exactly the old layout, rows or no rows,
\* after the migration the file has the six columns of the current layout,
\* every earlier row keeps its date, keyword, count and status, and both
\* growth fields of every earlier row are blank.
C3_OldLayoutUpgraded ==
  (pc = "m_once" /\ OldLayout(pre)) =>
    /\ store.header = SCHEMA_V2
    /\ Len(store.rows) = Len(pre.rows)
    /\ \A i \in 1..Len(pre.rows) :
         /\ Len(store.rows[i]) = 6
         /\ SubSeq(store.rows[i], 1, 4) = pre.rows[i]
         /\ store.rows[i][5] = Blank
         /\ store.rows[i][6] = Blank

\* C4: the migration is idempotent: a second run leaves every store (missing,
\* zero bytes, header only, old, current or drifted layout) exactly as the
\* first run left it, a store already in the current layout is not changed
\* by the first run either, and a run that fails on an unreadable store
\* changes nothing.
C4_MigrationIdempotent ==
  /\ pc = "m_twice" => store = migrated
  /\ (pc = "m_once" /\ pre.exists /\ pre.header = SCHEMA_V2) => store = pre
  /\ pc = "fatal" => store = pre

\* the second run follows a first run that rewrote an old-layout store
C4_Witness ==
  /\ pc = "m_twice"
  /\ pre.header = SCHEMA_V1
  /\ pre.rows # <<>>
  /\ migrated # pre
  /\ migrated.header = SCHEMA_V2

----------------------------------------------------------------------------
(* Claims about main() (Spec) *)

AfterFetch == {"snapshot", "enrich", "append", "rank", "done"}

\* the lines append_csv wrote in this run
Appended == SubSeq(store.rows, Len(pre.rows) + 1, Len(store.rows))

\* C5: a failed fetch never aborts the batch: the failing keyword gets count
\* 0 and an "error: ..." status, every keyword is fetched in order whatever
\* failed before it, the run never enters a failure state, and at Done the
\* snapshot and the history hold one batch row per keyword and the report
\* is written.
C5_FetchFailureNotFatal ==
  /\ pc \in Range(STEPS) \cup {"done"}
  /\ Len(today_rows) <= Len(KEYWORDS)
  /\ \A i \in 1..Len(today_rows) :
       /\ today_rows[i].keyword = Kw(KEYWORDS[i])
       /\ today_rows[i].status \in {StOk, StErr}
       /\ today_rows[i].status = StErr => today_rows[i].count = IntV(0)
  /\ pc \in AfterFetch => Len(today_rows) = Len(KEYWORDS)
  /\ pc = "done" =>
       /\ snapshot.exists /\ Len(snapshot.rows) = Len(KEYWORDS)
       /\ store.exists /\ Len(Appended) = Len(KEYWORDS)
       /\ \A i \in 1..Len(KEYWORDS) :
            /\ snapshot.rows[i][2] = Kw(KEYWORDS[i])
            /\ snapshot.rows[i][3] = today_rows[i].count
            /\ snapshot.rows[i][4] = today_rows[i].status
            /\ Appended[i][2] = Kw(KEYWORDS[i])
            /\ Appended[i][4] = today_rows[i].status
       /\ report.exists /\ report.rows # <<>>

\* a run in which every fetch failed still reaches Done
C5_Witness ==
  /\ pc = "done"
  /\ \A i \in 1..Len(KEYWORDS) : today_rows[i].status = StErr /\ today_rows[i].count = IntV(0)
  /\ report.exists

\* C6: the history is append-only: the append step leaves every earlier
\* line as it was and in place and adds one line per keyword of the batch
\* after them (a same-day re-run adds lines with an already stored date and
\* keyword); between the migration and the append the store is not written.
C6_AppendOnly ==
  /\ pc \in {"fetch", "snapshot", "enrich", "append"} => store = migrated
  /\ pc \in {"rank", "done"} =>
       /\ pre = migrated
       /\ store.exists
       /\ pre.exists => store.header = pre.header
       /\ Len(store.rows) = Len(pre.rows) + Len(KEYWORDS)
       /\ SubSeq(store.rows, 1, Len(pre.rows)) = pre.rows
       /\ \A i \in 1..Len(KEYWORDS) :
            /\ Appended[i][1] = DtStr(today)
            /\ Appended[i][2] = Kw(KEYWORDS[i])
            /\ Appended[i][3] = today_rows[i].count

\* a same-day re-run: the second run's lines repeat the date and keyword of
\* lines the first run wrote, and those are still there
C6_Witness ==
  /\ pc = "rank"
  /\ run = 2
  /\ Len(pre.rows) >= Len(KEYWORDS)
  /\ \A i \in 1..Len(KEYWORDS) :
       \E j \in 1..Len(pre.rows) :
          /\ store.rows[j][1] = Appended[i][1]
          /\ store.rows[j][2] = Appended[i][2]
          /\ store.rows[j][3] # Appended[i][3]

StepIndex(p) == IF p = "done" THEN Len(STEPS) + 1 ELSE IndexOf(STEPS, p)

\* C8: every run goes through migrate, fetch, snapshot, enrich, append, rank
\* and done in that order and nothing else: the migration is over before
\* the first fetch, the snapshot holds every keyword, the growth is
\* computed from the history as the migration left it and before the
\* append, and every report row is a row of the enriched batch.
C8_LinearOrder ==
  /\ pc \in Range(STEPS) \cup {"done"}
  /\ trail = SubSeq(STEPS, 1, StepIndex(pc) - 1)
  /\ pc = "migrate" => today_rows = <<>> /\ enriched = <<>>
  /\ pc = "fetch" => Len(today_rows) < Len(KEYWORDS) /\ enriched = <<>>
  /\ pc \in AfterFetch => Len(today_rows) = Len(KEYWORDS)
  /\ pc \in AfterFetch \ {"snapshot"} =>
       /\ Len(snapshot.rows) = Len(KEYWORDS)
       /\ \A i \in 1..Len(KEYWORDS) : snapshot.rows[i][2] = Kw(KEYWORDS[i])
  /\ pc \in {"snapshot", "enrich"} => enriched = <<>>
  /\ pc = "append" => hist_at_enrich = store
  /\ pc \in {"append", "rank", "done"} =>
       /\ hist_at_enrich = migrated
       /\ Len(enriched) = Len(KEYWORDS)
       /\ enriched = compute_growth(today_rows, hist_at_enrich)
       /\ \A i \in 1..Len(enriched) :
            /\ enriched[i].keyword = today_rows[i].keyword
            /\ enriched[i].count = today_rows[i].count
  /\ pc \in {"rank", "done"} => pre = hist_at_enrich /\ Len(store.rows) > Len(pre.rows)
  /\ pc = "done" =>
       /\ report.rows # <<>>
       /\ \A i \in 1..Len(report.rows) :
            \E p \in 1..Len(enriched) :
               /\ report.rows[i][1] = DtStr(today)
               /\ report.rows[i][2] = enriched[p].keyword
               /\ report.rows[i][3] = enriched[p].count

\* a second complete run, on the day after the first
C8_Witness ==
  /\ pc = "done"
  /\ run = 2
  /\ today = Today0 + 1
  /\ trail = STEPS

----------------------------------------------------------------------------
(* Claims about the files main() writes, as stated (Spec) *)

\* the layouts the migration leaves in place: no store, a store without
\* data rows, and a header holding every column of the current layout
LeftInPlace(st) ==
  \/ ~st.exists
  \/ st.rows = <<>>
  \/ Range(SCHEMA_V2) \subseteq Range(st.header)

\* C9: for every layout the migration leaves in place, the batch appended
\* by append_csv is read back by safe_read_csv as the last rows of the
\* store, with the date, keyword and count that were written.
C9_RoundTrip ==
  (pc = "rank" /\ LeftInPlace(pre)) =>
    LET df == safe_read_csv(store)
        n == Len(df.rows)
        m == Len(enriched)
    IN /\ n >= m
       /\ {"date", "keyword", "count"} \subseteq Range(df.cols)
       /\ \A i \in 1..m :
            LET r == df.rows[n - m + i] IN
            /\ to_datetime(r[IndexOf(df.cols, "date")]) = enriched[i].date
            /\ r[IndexOf(df.cols, "keyword")] = enriched[i].keyword
            /\ CanInt(r[IndexOf(df.cols, "count")])
            /\ PyInt(r[IndexOf(df.cols, "count")]) = enriched[i].count.v

\* the batch row a report line was made from
BatchRowOf(line) == CHOOSE p \in 1..Len(enriched) : enriched[p].keyword = line[2]

\* C10: every line of the top-risers report has the columns date, keyword,
\* count, day_growth_pct, week_growth_pct, status, and a growth value that
\* is absent for the observation is an empty field in the report.
C10_AbsentGrowthIsBlank ==
  pc = "done" =>
    /\ report.header = REPORT_COLS
    /\ \A i \in 1..Len(report.rows) :
         LET line == report.rows[i]
             row == enriched[BatchRowOf(line)]
         IN /\ Len(line) = Len(REPORT_COLS)
            /\ row.day_growth_pct = Blank => line[4] = Blank
            /\ row.week_growth_pct = Blank => line[5] = Blank

====
